---- MODULE Spec2Model ----
(***************************************************************************)
(* Model of model_switcher.py (OpenClaw model switching utility): the      *)
(* alias/registry resolution and the guarded                               *)
(* switch-validate-restart-verify-rollback workflow.                       *)
(*                                                                         *)
(* Strings are sequences of one-character strings, so that strip, lower,   *)
(* startswith, split, replace and substring tests are computed the way the *)
(* Python code computes them.                                              *)
(***************************************************************************)
EXTENDS Integers, Sequences, FiniteSets, TLC

----------------------------------------------------------------------------
(* String primitives (Python str methods used by the source)               *)

UpperChars == <<"A","B","C","D","E","F","G","H","I","J","K","L","M",
                "N","O","P","Q","R","S","T","U","V","W","X","Y","Z">>

LowerChars == <<"a","b","c","d","e","f","g","h","i","j","k","l","m",
                "n","o","p","q","r","s","t","u","v","w","x","y","z">>

LowerChar(c) ==
    IF \E i \in 1..Len(UpperChars) : UpperChars[i] = c
    THEN LowerChars[CHOOSE i \in 1..Len(UpperChars) : UpperChars[i] = c]
    ELSE c

Lower(s) == [i \in 1..Len(s) |-> LowerChar(s[i])]

IsSpace(c) == c \in {" ", "\t"}

RECURSIVE LStrip(_)
LStrip(s) == IF s # <<>> /\ IsSpace(Head(s)) THEN LStrip(Tail(s)) ELSE s

RECURSIVE RStrip(_)
RStrip(s) ==
    IF s # <<>> /\ IsSpace(s[Len(s)]) THEN RStrip(SubSeq(s, 1, Len(s) - 1)) ELSE s

Strip(s) == RStrip(LStrip(s))

StartsWith(s, p) == Len(s) >= Len(p) /\ SubSeq(s, 1, Len(p)) = p

Contains(s, sub) ==
    \E i \in 0..(Len(s) - Len(sub)) : SubSeq(s, i + 1, i + Len(sub)) = sub

RECURSIVE Replace(_, _, _)
Replace(s, old, new) ==
    IF Len(s) < Len(old) THEN s
    ELSE IF StartsWith(s, old)
         THEN new \o Replace(SubSeq(s, Len(old) + 1, Len(s)), old, new)
         ELSE <<Head(s)>> \o Replace(Tail(s), old, new)

SlashAt(s) == {i \in 1..Len(s) : s[i] = "/"}

Max(S) == CHOOSE x \in S : \A y \in S : y <= x
Min(S) == CHOOSE x \in S : \A y \in S : x <= y

\* s.split("/")[-1]
SplitLast(s) == IF SlashAt(s) = {} THEN s ELSE SubSeq(s, Max(SlashAt(s)) + 1, Len(s))

\* s.split("/")[0]
SplitFirst(s) == IF SlashAt(s) = {} THEN s ELSE SubSeq(s, 1, Min(SlashAt(s)) - 1)

\* s.split("/", 1)[1], used only where s contains "/"
SplitRest(s) == SubSeq(s, Min(SlashAt(s)) + 1, Len(s))

----------------------------------------------------------------------------
(* String literals of the source                                           *)

DEFAULT_MODEL == <<"a","n","t","h","r","o","p","i","c","/","c","l","a","u","d","e",
                   "-","s","o","n","n","e","t","-","4","-","6">>

PfxAnthropic  == <<"a","n","t","h","r","o","p","i","c","/">>
PfxOpenrouter == <<"o","p","e","n","r","o","u","t","e","r","/">>
PfxOpenai     == <<"o","p","e","n","a","i","/">>
PfxGoogle     == <<"g","o","o","g","l","e","/">>
PfxXai        == <<"x","a","i","/">>
PfxDeepseek   == <<"d","e","e","p","s","e","e","k","/">>

KnownPrefixes ==
    {PfxAnthropic, PfxOpenrouter, PfxOpenai, PfxGoogle, PfxXai, PfxDeepseek}

Dash46  == <<"-","4","-","6">>
Dot46   == <<"-","4",".","6">>
V46Dot  == <<"4",".","6">>
V46Dash == <<"4","-","6">>

Anthropic  == <<"a","n","t","h","r","o","p","i","c">>
Openrouter == <<"o","p","e","n","r","o","u","t","e","r">>

----------------------------------------------------------------------------
(* Python dict helpers; a dict is a function whose domain is its key set   *)

EmptyDict == <<>>

HasKey(d, k) == k \in DOMAIN d

Put(d, k, v) == [x \in (DOMAIN d) \cup {k} |-> IF x = k THEN v ELSE d[x]]

SetDefault(d, k, v) == IF HasKey(d, k) THEN d ELSE Put(d, k, v)

Update(d, o) == [x \in (DOMAIN d) \cup (DOMAIN o) |-> IF HasKey(o, x) THEN o[x] ELSE d[x]]

Get(d, k, default) == IF HasKey(d, k) THEN d[k] ELSE default

----------------------------------------------------------------------------
(* Files and external state                                                *)

VARIABLES
    config,        \* CONFIG: the configuration document
    backups,       \* BACKUP_DIR: timestamp -> document
    models_file,   \* MODELS_PATH: the registry, providers in file order
    alias_file,    \* ALIAS_PATH: the alias override document
    clock,         \* wall clock, whole seconds
    journal,       \* journal of the managed service: lines with their time
    logfile,       \* today's log artifact of the managed service
    svc            \* the managed service: status and the model it loaded

VARIABLES
    pc,            \* position of the current invocation
    cmd,           \* subcommand dispatched by main
    user_id,       \* value of --user-id, "" when missing
    model_raw,     \* raw token of set / validate
    dry_run,
    validate_mode,
    args,          \* remaining arguments of add / remove / rollback
    model_id,      \* cmd_model_set: normalized id
    curl,          \* outcome of the outbound catalog query of this invocation
    validation,    \* cmd_model_set: result of validate_model
    backup,        \* cmd_model_set: timestamp of the backup taken
    pre_size,      \* restart_and_check: log offset recorded before the restart
    deadline,      \* restart_and_check: end of the poll loop
    health,        \* result of restart_and_check
    exitCode       \* process exit status, -1 while running

VARIABLES
    preConfig,     \* history: document when the invocation started
    preBackups,    \* history: backup directory when the invocation started
    prePatch,      \* history: document immediately before patch_config
    restarts,      \* history: restart commands issued by the invocation
    backupWrites,  \* history: backup artifacts written by the invocation
    configWrites,  \* history: writes of CONFIG by the invocation
    registryWrites,\* history: writes of MODELS_PATH by the invocation
    statusQueries, \* history: is-active queries of the current restart_and_check
    iters,         \* history: poll iterations of the current restart_and_check
    lastObs,       \* history: what the last poll iteration observed
    invocations    \* number of invocations started

VARIABLES
    nraw, nres1, nres2, npc,  \* inputs and results of the normalizer runs
    nindex                    \* the alias index the normalizer built

VARIABLES
    new_cfg,       \* patch_config: the document loaded and modified, to be written
    jmark          \* history: length of the journal when the restart was issued

\* a second invocation of `set`, started by another operator
VARIABLES
    pc2, model_raw2, model_id2, backup2, pre_size2, deadline2, health2, exitCode2,
    iters2         \* history: poll iterations of the second invocation

fileVars == <<config, backups, models_file, alias_file>>
envVars  == <<clock, journal, logfile, svc>>
procVars == <<pc, cmd, user_id, model_raw, dry_run, validate_mode, args, model_id,
              curl, validation, backup, pre_size, deadline, health, exitCode>>
histVars == <<preConfig, preBackups, prePatch, restarts, backupWrites, configWrites,
              registryWrites, statusQueries, iters, lastObs, invocations>>
normVars == <<nraw, nres1, nres2, npc, nindex>>
peerVars == <<pc2, model_raw2, model_id2, backup2, pre_size2, deadline2, health2,
              exitCode2, iters2>>

vars == <<fileVars, envVars, procVars, histVars, normVars, new_cfg, jmark, peerVars>>

----------------------------------------------------------------------------
(* Alias index and normalizer                                              *)

\* load_aliases: keys stripped and lowercased, values stripped; {} when the
\* file is absent or does not parse.  Later pairs win on equal keys.
RECURSIVE LoadPairs(_, _)
LoadPairs(d, pairs) ==
    IF pairs = <<>> THEN d
    ELSE LoadPairs(Put(d, Lower(Strip(Head(pairs)[1])), Strip(Head(pairs)[2])),
                   Tail(pairs))

load_aliases(f) ==
    IF f.exists /\ f.valid THEN LoadPairs(EmptyDict, f.pairs) ELSE EmptyDict

RECURSIVE IndexAliases(_, _, _)
IndexAliases(aliases, als, mid) ==
    IF als = <<>> THEN aliases
    ELSE LET a_norm == Lower(Strip(Head(als)))
         IN  IndexAliases(IF a_norm # <<>> THEN Put(aliases, a_norm, mid) ELSE aliases,
                          Tail(als), mid)

IndexItem(aliases, provider, item) ==
    LET mid == Strip(item.id)
        a1  == Put(aliases, Lower(mid), mid)
        a2  == SetDefault(a1, Lower(SplitLast(mid)), mid)
        a3  == IndexAliases(a2, item.aliases, mid)
        a4  == Put(a3, Lower(Replace(mid, Dash46, Dot46)), mid)
        a5  == Put(a4, Lower(Replace(mid, Dot46, Dash46)), mid)
    IN  IF mid = <<>> THEN aliases
        ELSE IF provider = Anthropic THEN a5 ELSE a3

RECURSIVE IndexModels(_, _, _)
IndexModels(aliases, provider, models) ==
    IF models = <<>> THEN aliases
    ELSE IndexModels(IndexItem(aliases, provider, Head(models)), provider, Tail(models))

RECURSIVE IndexProviders(_, _)
IndexProviders(aliases, providers) ==
    IF providers = <<>> THEN aliases
    ELSE IndexProviders(IndexModels(aliases, Head(providers).name, Head(providers).models),
                        Tail(providers))

build_alias_index(registry, af) ==
    Update(IndexProviders(EmptyDict, registry), load_aliases(af))

HasKnownPrefix(s) == \E p \in KnownPrefixes : StartsWith(Lower(s), p)

normalize_model(raw, registry, af) ==
    LET token       == Strip(raw)
        alias_index == build_alias_index(registry, af)
        resolved    == Get(alias_index, Lower(token), token)
        prefixed    == IF Contains(resolved, <<"/">>) /\ ~HasKnownPrefix(resolved)
                       THEN PfxOpenrouter \o resolved
                       ELSE resolved
        name        == SplitRest(prefixed)
    IN  IF token = <<>> THEN token
        ELSE IF StartsWith(prefixed, PfxAnthropic) /\ Contains(name, V46Dot)
             THEN PfxAnthropic \o Replace(name, V46Dot, V46Dash)
             ELSE prefixed

----------------------------------------------------------------------------
(* Catalog validator                                                       *)

local_model_exists(mid, registry, af) ==
    HasKey(build_alias_index(registry, af), Lower(mid))

provider_from_model(mid) == Lower(SplitFirst(mid))

\* catalog is the outcome of the outbound curl query: how the command ran,
\* whether its output parses as JSON, and the ids the output lists.
\* sh raises on a non-zero exit and on a timeout, json.loads on an
\* unparsable body; the except clause of line 134 turns each into False.
CatalogRaises(catalog) == catalog.run # "ok" \/ ~catalog.parses

\* model_id[len("openrouter/"):] when the id has the prefix
CatalogTarget(mid) ==
    IF StartsWith(mid, PfxOpenrouter)
    THEN SubSeq(mid, Len(PfxOpenrouter) + 1, Len(mid))
    ELSE mid

\* variant of openrouter_has_model that accepts the id when the query fails
openrouter_has_model_fail_open(mid, catalog) ==
    IF CatalogRaises(catalog) THEN TRUE
    ELSE CatalogTarget(mid) \in catalog.ids

openrouter_has_model(mid, catalog) ==
    IF CatalogRaises(catalog) THEN FALSE
    ELSE CatalogTarget(mid) \in catalog.ids

remote_validate(mid, catalog) ==
    IF provider_from_model(mid) = Openrouter THEN openrouter_has_model(mid, catalog)
    ELSE TRUE

validate_model(mid, registry, af, mode, catalog) ==
    IF mode = "none" THEN [ok |-> TRUE, msg |-> "skipped"]
    ELSE IF ~local_model_exists(mid, registry, af)
         THEN [ok |-> FALSE, msg |-> "not_in_local_registry"]
    ELSE IF mode = "local" THEN [ok |-> TRUE, msg |-> "local_passed"]
    ELSE IF remote_validate(mid, catalog) THEN [ok |-> TRUE, msg |-> "remote_passed"]
    ELSE [ok |-> FALSE, msg |-> "remote_failed"]

----------------------------------------------------------------------------
(* Config store                                                            *)

Absent  == [set |-> FALSE, v |-> <<>>]
Some(v) == [set |-> TRUE, v |-> v]

Unknown == <<"(","u","n","k","n","o","w","n",")">>

RECURSIVE MainModel(_)
MainModel(agents) ==
    IF agents = <<>> THEN Absent
    ELSE IF Head(agents).id = "main" /\ Head(agents).primary.set
                                     /\ Head(agents).primary.v # <<>>
         THEN Head(agents).primary
         ELSE MainModel(Tail(agents))

current_model(cfg) ==
    IF MainModel(cfg.agents).set THEN MainModel(cfg.agents).v
    ELSE IF cfg.defaults.set THEN cfg.defaults.v
    ELSE Unknown

\* variant of patch_config that sets the default field only
patch_config_defaults_only(cfg, mid) ==
    [cfg EXCEPT !.defaults = Some(mid), !.layout = "dumps_indent2"]

\* variant of patch_config that sets the model of every agent
patch_config_all_agents(cfg, mid) ==
    [cfg EXCEPT !.defaults = Some(mid),
                !.agents   = [i \in 1..Len(cfg.agents) |->
                                 [cfg.agents[i] EXCEPT !.primary = Some(mid)]],
                !.layout   = "dumps_indent2"]

\* json.loads, two assignments, json.dumps(indent=2): the document is
\* rewritten in the serializer's layout.
patch_config(cfg, mid) ==
    [cfg EXCEPT !.defaults = Some(mid),
                !.agents   = [i \in 1..Len(cfg.agents) |->
                                 IF cfg.agents[i].id = "main"
                                 THEN [cfg.agents[i] EXCEPT !.primary = Some(mid)]
                                 ELSE cfg.agents[i]],
                !.layout   = "dumps_indent2"]

\* backup_config: verbatim text copy into openclaw.json.<ts>.bak
backup_config(dir, cfg, ts) == Put(dir, ts, cfg)

\* variant of restore_config that restores the oldest backup of the directory
restore_config_oldest(dir, ts) ==
    dir[CHOOSE k \in DOMAIN dir : \A j \in DOMAIN dir : k <= j]

\* rollback_to, first statement: CONFIG.write_text(backup.read_text())
restore_config(dir, ts) == dir[ts]

Str(x) == x.s

\* variant of require_allowlisted that only asks for an identity
require_allowlisted_any_id(uid, cfg) == uid # ""

\* require_allowlisted: TRUE when the caller may proceed, FALSE for sys.exit(4)
require_allowlisted(uid, cfg) ==
    /\ uid # ""
    /\ uid \in {Str(cfg.allowFrom[i]) : i \in 1..Len(cfg.allowFrom)}

----------------------------------------------------------------------------
(* Health observer: text sources and the three checks                      *)

AgentModelMarker == <<"a","g","e","n","t"," ","m","o","d","e","l",":"," ">>
UnknownModelPat  == <<"u","n","k","n","o","w","n"," ","m","o","d","e","l",":">>
NotFoundPat      == <<"m","o","d","e","l"," ","n","o","t"," ","f","o","u","n","d">>
Pat404           == <<"4","0","4">>
PatModel         == <<"m","o","d","e","l">>

UnknownModelText == <<"U","n","k","n","o","w","n"," ","m","o","d","e","l",":"," ">>

\* the fixed-format line the service prints for the model it loaded
ConfirmLine(mid) == AgentModelMarker \o mid
\* the line the service prints when it rejects the configured model
FailLine(mid) == UnknownModelText \o mid

\* re.search(r"404.*model", line, re.IGNORECASE); "." does not cross lines
Match404(l) ==
    \E i \in 1..Len(l) :
        /\ StartsWith(SubSeq(l, i, Len(l)), Pat404)
        /\ Contains(SubSeq(l, i + Len(Pat404), Len(l)), PatModel)

LineMatchesFailure(line) ==
    LET l == Lower(line)
    IN  Contains(l, UnknownModelPat) \/ Contains(l, NotFoundPat) \/ Match404(l)

\* re.search(r"Unknown model:|model not found|404.*model", combined, IGNORECASE)
MatchesFailure(lines) == \E i \in 1..Len(lines) : LineMatchesFailure(lines[i])

\* f"agent model: {model_id}" in combined
HasConfirmation(lines, mid) ==
    \E i \in 1..Len(lines) : Contains(lines[i], AgentModelMarker \o mid)

JournalWindow == 40
JournalTail   == 200
PollDeadline  == 25
PollSleep     == 2
ShTimeout     == 30

\* _read_log_from(pre_size)
read_log_from(log, offset) == SubSeq(log, offset + 1, Len(log))

LastN(q, n) == IF Len(q) <= n THEN q ELSE SubSeq(q, Len(q) - n + 1, Len(q))

SelectSince(j, since) == SelectSeq(j, LAMBDA e : e.t >= since)

\* journalctl --since <now-40s> -n 200
journalctl(j, now) ==
    LET w == LastN(SelectSince(j, now - JournalWindow), JournalTail)
    IN  [i \in 1..Len(w) |-> w[i].text]

\* variant of poll_decision that looks for the confirmation first
poll_decision_confirm_first(combined, status, mid) ==
    IF HasConfirmation(combined, mid) THEN "confirmed"
    ELSE IF MatchesFailure(combined) THEN "unknown_model_in_logs"
    ELSE IF status # "active" THEN "not_active"
    ELSE "poll"

\* the body of one poll iteration after its observations (lines 242-247):
\* "poll" means that no check fired
poll_decision(combined, status, mid) ==
    IF MatchesFailure(combined) THEN "unknown_model_in_logs"
    ELSE IF HasConfirmation(combined, mid) THEN "confirmed"
    ELSE IF status # "active" THEN "not_active"
    ELSE "poll"

NoHealth == [ok |-> FALSE, reason |-> "none"]

----------------------------------------------------------------------------
(* Registry maintenance                                                    *)

Ascii == <<"\t"," ","(",")","-",".","/","0","1","2","3","4","5","6","7","8","9",":",
           "A","B","C","D","E","F","G","H","I","J","K","L","M",
           "N","O","P","Q","R","S","T","U","V","W","X","Y","Z",
           "a","b","c","d","e","f","g","h","i","j","k","l","m",
           "n","o","p","q","r","s","t","u","v","w","x","y","z">>

Ord(c) == CHOOSE i \in 1..Len(Ascii) : Ascii[i] = c

RECURSIVE StrLess(_, _)
StrLess(a, b) ==
    IF a = <<>> THEN b # <<>>
    ELSE IF b = <<>> THEN FALSE
    ELSE IF Head(a) = Head(b) THEN StrLess(Tail(a), Tail(b))
    ELSE Ord(Head(a)) < Ord(Head(b))

\* sorted(set_of_strings)
RECURSIVE Sorted(_)
Sorted(S) ==
    IF S = {} THEN <<>>
    ELSE LET m == CHOOSE x \in S : \A y \in S \ {x} : StrLess(x, y)
         IN  <<m>> \o Sorted(S \ {m})

Range(q) == {q[i] : i \in 1..Len(q)}

ProviderAt(registry, provider) ==
    CHOOSE i \in 1..Len(registry) : registry[i].name = provider

HasProvider(registry, provider) == \E i \in 1..Len(registry) : registry[i].name = provider

\* cmd_model_add: the registry that save_models writes
cmd_model_add(registry, provider, mid, aliases) ==
    LET providers == IF HasProvider(registry, provider) THEN registry
                     ELSE Append(registry, [name |-> provider, models |-> <<>>])
        p         == ProviderAt(providers, provider)
        models    == providers[p].models
        hits      == {i \in 1..Len(models) : models[i].id = mid}
        first     == Min(hits)
        merged    == Sorted(Range(models[first].aliases) \cup Range(aliases))
    IN  IF hits # {}
        THEN [providers EXCEPT ![p].models[first].aliases = merged]
        ELSE [providers EXCEPT ![p].models = Append(models, [id |-> mid, aliases |-> aliases])]

\* cmd_model_remove: the filtered model list of the provider
remove_models(models, mid) == SelectSeq(models, LAMBDA m : m.id # mid)

cmd_model_remove(registry, provider, mid) ==
    LET p == ProviderAt(registry, provider)
    IN  [registry EXCEPT ![p].models = remove_models(registry[p].models, mid)]

RECURSIVE CountModels(_)
CountModels(registry) ==
    IF registry = <<>> THEN 0
    ELSE Len(Head(registry).models) + CountModels(Tail(registry))

----------------------------------------------------------------------------
(* Bounds and inputs                                                       *)

MaxJournal     == 1     \* lines the service writes to its journal
MaxLog         == 1     \* lines the service writes to its log artifact
MaxModels      == 3     \* registry entries, all providers together

IdX     == <<"o","p","e","n","r","o","u","t","e","r","/","x">>
TokX    == <<"x">>
Sonnet  == <<"s","o","n","n","e","t">>
Fast    == <<"f","a","s","t">>
Fake    == <<"f","a","k","e">>

Tokens == {<<>>, <<" ">>, <<" ","S","o","n","n","e","t">>, Fast, Fake, IdX}

Users == {"", "u1", "u2"}

ValidateModes == {"local", "remote", "none"}

SwitchCmds == {"model set", "set", "model reset"}

Restricted == SwitchCmds \cup
              {"model add", "model remove", "model export", "model reload", "rollback"}

Commands == Restricted \cup {"model show", "validate"}

AddProviders == {Anthropic, Openrouter}
AddIds       == {IdX}
AddAliases   == {<<>>, <<TokX, Fast>>}
RemoveIds    == {IdX, DEFAULT_MODEL}

NoFile == 0 - 1
NoArgs == [provider |-> <<>>, id |-> <<>>, aliases |-> <<>>, file |-> NoFile]

NoCurl == [run |-> "not_run", parses |-> FALSE, ids |-> {}]
CurlOutcomes ==
    {[run |-> "nonzero", parses |-> FALSE, ids |-> {}],
     [run |-> "timeout", parses |-> FALSE, ids |-> {}],
     [run |-> "ok",      parses |-> FALSE, ids |-> {}],
     [run |-> "ok",      parses |-> TRUE,  ids |-> {}],
     [run |-> "ok",      parses |-> TRUE,  ids |-> {TokX}]}

NoValidation == [ok |-> FALSE, msg |-> "none"]

NoObs == [valid |-> FALSE, fail |-> FALSE, confirm |-> FALSE, status |-> "active"]

RestartOutcomes == {"ok", "nonzero", "timeout"}
QueryOutcomes   == {"ok", "timeout"}

CfgMain ==
    [layout    |-> "foreign",
     defaults  |-> Some(DEFAULT_MODEL),
     image     |-> Absent,
     agents    |-> <<[id |-> "main",   primary |-> Some(DEFAULT_MODEL)],
                     [id |-> "helper", primary |-> Some(IdX)],
                     [id |-> "main",   primary |-> Absent]>>,
     allowFrom |-> <<[num |-> TRUE, s |-> "u1"]>>]

CfgNoMain ==
    [layout    |-> "dumps_indent2",
     defaults  |-> Some(IdX),
     image     |-> Some(IdX),
     agents    |-> <<[id |-> "helper", primary |-> Absent]>>,
     allowFrom |-> <<[num |-> FALSE, s |-> "u1"]>>]

DefaultRegistry ==
    <<[name |-> Anthropic,  models |-> <<[id |-> DEFAULT_MODEL, aliases |-> <<Sonnet>>]>>],
      [name |-> Openrouter, models |-> <<[id |-> IdX, aliases |-> <<>>]>>]>>

AbsentFile == [exists |-> FALSE, valid |-> FALSE, pairs |-> <<>>]
FastFile   == [exists |-> TRUE,  valid |-> TRUE,  pairs |-> <<<<Fast, Sonnet>>>>]

\* the outcomes of the curl command, which runs only when validate_model
\* reaches openrouter_has_model
CurlQuery(mid, registry, af, mode) ==
    IF /\ mode = "remote"
       /\ local_model_exists(mid, registry, af)
       /\ provider_from_model(mid) = Openrouter
    THEN CurlOutcomes
    ELSE {NoCurl}

----------------------------------------------------------------------------
(* Initial state                                                           *)

ProcIdle ==
    /\ pc = "idle"
    /\ cmd = "none"
    /\ user_id = ""
    /\ model_raw = <<>>
    /\ dry_run = FALSE
    /\ validate_mode = "local"
    /\ args = NoArgs
    /\ model_id = <<>>
    /\ curl = NoCurl
    /\ validation = NoValidation
    /\ backup = NoFile
    /\ pre_size = 0
    /\ deadline = 0
    /\ health = NoHealth
    /\ exitCode = 0 - 1
    /\ new_cfg = config

HistInit ==
    /\ preConfig = config
    /\ preBackups = backups
    /\ prePatch = config
    /\ restarts = 0
    /\ backupWrites = 0
    /\ configWrites = 0
    /\ registryWrites = 0
    /\ statusQueries = 0
    /\ iters = 0
    /\ lastObs = NoObs
    /\ invocations = 0
    /\ jmark = 0

EnvInit ==
    /\ clock = 50
    /\ journal = <<>>
    /\ logfile = <<>>
    /\ svc = [status |-> "active", model |-> current_model(config)]

\* no second invocation
PeerOff ==
    /\ pc2 = "off"
    /\ model_raw2 = <<>>
    /\ model_id2 = <<>>
    /\ backup2 = NoFile
    /\ pre_size2 = 0
    /\ deadline2 = 0
    /\ health2 = NoHealth
    /\ exitCode2 = 0 - 1
    /\ iters2 = 0

\* what earlier runs and the operator left on disk
InitFiles ==
    {[config |-> CfgMain,   backups |-> EmptyDict,                  aliases |-> AbsentFile],
     [config |-> CfgMain,   backups |-> Put(EmptyDict, 0, CfgNoMain), aliases |-> FastFile],
     [config |-> CfgNoMain, backups |-> EmptyDict,                  aliases |-> FastFile]}

Init ==
    /\ \E f \in InitFiles :
          /\ config = f.config
          /\ backups = f.backups
          /\ alias_file = f.aliases
    /\ models_file = DefaultRegistry
    /\ EnvInit
    /\ ProcIdle
    /\ HistInit
    /\ PeerOff
    /\ nraw = <<>> /\ nres1 = <<>> /\ nres2 = <<>> /\ npc = "off" /\ nindex = EmptyDict

----------------------------------------------------------------------------
(* main: argument handling, authorization gate, dispatch                   *)

inputVars == <<cmd, user_id, model_raw, dry_run, validate_mode, args>>
setVars   == <<model_id, curl, validation>>
pollVars  == <<pre_size, deadline, statusQueries, iters, lastObs>>
snapVars  == <<preConfig, preBackups, invocations>>

Exit(code) == pc' = "done" /\ exitCode' = code

Handler(c) ==
    CASE c \in SwitchCmds     -> "cmd_model_set"
      [] c = "model add"      -> "cmd_model_add"
      [] c = "model remove"   -> "cmd_model_remove"
      [] c = "model export"   -> "cmd_model_export"
      [] c = "model reload"   -> "cmd_model_reload"
      [] c = "rollback"       -> "cmd_rollback"
      [] c = "model show"     -> "cmd_model_show"
      [] c = "validate"       -> "cmd_validate"

RawFor(c) ==
    IF c \in {"model set", "set", "validate"} THEN Tokens
    ELSE IF c = "model reset" THEN {DEFAULT_MODEL}
    ELSE {<<>>}

DryFor(c) == IF c \in SwitchCmds THEN BOOLEAN ELSE {FALSE}

ModeFor(c) == IF c \in SwitchCmds \cup {"validate"} THEN ValidateModes ELSE {"local"}

ArgsFor(c) ==
    CASE c = "model add" ->
           {[NoArgs EXCEPT !.provider = p, !.id = i, !.aliases = a] :
               p \in AddProviders, i \in AddIds, a \in AddAliases}
      [] c = "model remove" ->
           {[NoArgs EXCEPT !.provider = p, !.id = i] :
               p \in AddProviders \cup {<<"x","a","i">>}, i \in RemoveIds}
      [] c = "rollback" ->
           {[NoArgs EXCEPT !.file = f] : f \in (DOMAIN backups) \cup {NoFile}}
      [] OTHER -> {NoArgs}

\* main for one parsed command line
Invoke(c, u, raw, dry, mode, a) ==
    /\ pc = "idle"
    /\ c = "model add" => CountModels(models_file) < MaxModels
    /\ cmd' = c
    /\ user_id' = u
    /\ model_raw' = raw
    /\ dry_run' = dry
    /\ validate_mode' = mode
    /\ args' = a
    /\ IF c \in Restricted /\ ~require_allowlisted(u, config)
       THEN Exit(4)
       ELSE pc' = Handler(c) /\ exitCode' = 0 - 1
    /\ invocations' = invocations + 1
    /\ preConfig' = config
    /\ preBackups' = backups
    /\ prePatch' = config
    /\ restarts' = 0 /\ backupWrites' = 0 /\ configWrites' = 0 /\ registryWrites' = 0
    /\ statusQueries' = 0 /\ iters' = 0 /\ lastObs' = NoObs
    /\ model_id' = <<>> /\ curl' = NoCurl /\ validation' = NoValidation
    /\ backup' = NoFile /\ pre_size' = 0 /\ deadline' = 0 /\ health' = NoHealth
    /\ UNCHANGED <<fileVars, envVars, normVars, new_cfg, jmark, peerVars>>

Main ==
    \E c \in Commands, u \in Users :
    \E raw \in RawFor(c), dry \in DryFor(c), mode \in ModeFor(c), a \in ArgsFor(c) :
        Invoke(c, u, raw, dry, mode, a)

----------------------------------------------------------------------------
(* cmd_model_set                                                           *)

\* variant of set_branch that tests the dry-run flag before the validation result
set_branch_dry_first(v, dry) ==
    IF dry THEN "exit_dry_run"
    ELSE IF ~v.ok THEN "exit_validation"
    ELSE "backup_config"

\* variant of set_branch without the dry-run exit
set_branch_no_dry(v, dry) ==
    IF ~v.ok THEN "exit_validation" ELSE "backup_config"

\* lines 321-330: what follows validation
set_branch(v, dry) ==
    IF ~v.ok THEN "exit_validation"
    ELSE IF dry THEN "exit_dry_run"
    ELSE "backup_config"

CmdModelSet ==
    /\ pc = "cmd_model_set"
    /\ \E q \in CurlQuery(normalize_model(model_raw, models_file, alias_file),
                           models_file, alias_file, validate_mode) :
          LET mid == normalize_model(model_raw, models_file, alias_file)
              v   == validate_model(mid, models_file, alias_file, validate_mode, q)
              b   == set_branch(v, dry_run)
          IN  /\ model_id' = mid
              /\ curl' = q
              /\ validation' = v
              /\ CASE b = "exit_validation" -> Exit(2)
                   [] b = "exit_dry_run"    -> Exit(0)
                   [] OTHER                 -> pc' = b /\ exitCode' = exitCode
    /\ UNCHANGED <<fileVars, envVars, inputVars, backup, health, pollVars, snapVars,
                   prePatch, restarts, backupWrites, configWrites, registryWrites,
                   normVars, new_cfg, jmark, peerVars>>

BackupConfig ==
    /\ pc = "backup_config"
    /\ backups' = backup_config(backups, config, clock)
    /\ backup' = clock
    /\ backupWrites' = backupWrites + 1
    /\ pc' = "patch_config"
    /\ UNCHANGED <<config, models_file, alias_file, envVars, inputVars, setVars, health,
                   exitCode, pollVars, snapVars, prePatch, restarts, configWrites,
                   registryWrites, normVars, new_cfg, jmark, peerVars>>

PatchConfig ==
    /\ pc = "patch_config"
    /\ prePatch' = config
    /\ new_cfg' = patch_config(config, model_id)
    /\ config' = new_cfg'
    /\ configWrites' = configWrites + 1
    /\ pc' = "restart_and_check"
    /\ UNCHANGED <<backups, models_file, alias_file, envVars, inputVars, setVars, backup,
                   health, exitCode, pollVars, snapVars, restarts, backupWrites,
                   registryWrites, normVars, jmark, peerVars>>

----------------------------------------------------------------------------
(* restart_and_check                                                       *)

\* effect of `systemctl --user restart` on the service, by outcome of the command
Restarted(r) ==
    IF r = "ok" THEN {[status |-> "active", model |-> current_model(config)]}
    ELSE IF r = "nonzero" THEN {[status |-> "failed", model |-> current_model(config)]}
    ELSE {[status |-> st, model |-> current_model(config)] : st \in {"active", "failed"}}

\* lines 216-219; sh(check=True) raises on a non-zero exit and on a timeout
RestartIssue ==
    /\ pc = "restart_and_check"
    /\ pre_size' = Len(logfile)
    /\ jmark' = Len(journal)
    /\ restarts' = restarts + 1
    /\ statusQueries' = 0 /\ iters' = 0 /\ lastObs' = NoObs
    /\ \E r \in RestartOutcomes :
          /\ svc' \in Restarted(r)
          /\ clock' = IF r = "timeout" THEN clock + ShTimeout ELSE clock
          /\ IF r = "ok"
             THEN pc' = "poll" /\ deadline' = clock + PollDeadline /\ exitCode' = exitCode
             ELSE Exit(1) /\ deadline' = deadline
    /\ UNCHANGED <<fileVars, journal, logfile, inputVars, setVars, backup, health,
                   snapVars, prePatch, backupWrites, configWrites, registryWrites,
                   normVars, new_cfg, peerVars>>

\* the outcome that ends restart_and_check, and what cmd_model_set does with it
health_of(d) == [ok |-> d = "confirmed", reason |-> d]

\* lines 220-247: one iteration of the poll loop
PollIter ==
    /\ pc = "poll"
    /\ clock < deadline
    /\ iters' = iters + 1
    /\ \E jr \in QueryOutcomes, sr \in QueryOutcomes :
          LET now      == clock + PollSleep
              new_text == read_log_from(logfile, pre_size)
              jctl     == journalctl(journal, now)
              status   == svc.status
              combined == new_text \o jctl
              d        == poll_decision(combined, status, model_id)
          IN  IF jr = "timeout"
              THEN /\ clock' = now + ShTimeout
                   /\ Exit(1)
                   /\ UNCHANGED <<statusQueries, lastObs, health>>
              ELSE IF sr = "timeout"
              THEN /\ clock' = now + ShTimeout
                   /\ statusQueries' = statusQueries + 1
                   /\ Exit(1)
                   /\ UNCHANGED <<lastObs, health>>
              ELSE /\ clock' = now
                   /\ statusQueries' = statusQueries + 1
                   /\ lastObs' = [valid   |-> TRUE,
                                  fail    |-> MatchesFailure(combined),
                                  confirm |-> HasConfirmation(combined, model_id),
                                  status  |-> status]
                   /\ CASE d = "poll"      -> /\ pc' = "poll"
                                              /\ UNCHANGED <<health, exitCode>>
                        [] d = "confirmed" -> /\ health' = health_of(d)
                                              /\ Exit(0)
                        [] OTHER           -> /\ health' = health_of(d)
                                              /\ pc' = "rollback_to"
                                              /\ exitCode' = exitCode
    /\ UNCHANGED <<fileVars, journal, logfile, svc, inputVars, setVars, backup, pre_size,
                   deadline, snapVars, prePatch, restarts, backupWrites, configWrites,
                   registryWrites, normVars, new_cfg, jmark, peerVars>>

\* line 249: the loop condition is false
PollExhausted ==
    /\ pc = "poll"
    /\ clock >= deadline
    /\ health' = health_of("active_unconfirmed")
    /\ pc' = "rollback_to"
    /\ UNCHANGED <<fileVars, envVars, inputVars, setVars, backup, exitCode, pollVars,
                   snapVars, prePatch, restarts, backupWrites, configWrites,
                   registryWrites, normVars, new_cfg, jmark, peerVars>>

----------------------------------------------------------------------------
(* rollback_to, and the rollback subcommand                                *)

RollbackRestore ==
    /\ pc = "rollback_to"
    /\ config' = restore_config(backups, backup)
    /\ configWrites' = configWrites + 1
    /\ pc' = "rollback_restart"
    /\ UNCHANGED <<backups, models_file, alias_file, envVars, inputVars, setVars, backup,
                   health, exitCode, pollVars, snapVars, prePatch, restarts, backupWrites,
                   registryWrites, normVars, new_cfg, jmark, peerVars>>

\* exit status after rollback_to returned: line 348 for a switch, line 506 for rollback
after_rollback(c) == IF c = "rollback" THEN 0 ELSE 3

RollbackRestart ==
    /\ pc = "rollback_restart"
    /\ restarts' = restarts + 1
    /\ \E r \in RestartOutcomes :
          /\ svc' \in Restarted(r)
          /\ clock' = IF r = "timeout" THEN clock + ShTimeout ELSE clock
          /\ IF r = "ok" THEN Exit(after_rollback(cmd)) ELSE Exit(1)
    /\ UNCHANGED <<fileVars, journal, logfile, inputVars, setVars, backup, health,
                   pollVars, snapVars, prePatch, backupWrites, configWrites,
                   registryWrites, normVars, new_cfg, jmark, peerVars>>

CmdRollback ==
    /\ pc = "cmd_rollback"
    /\ IF args.file \in DOMAIN backups
       THEN backup' = args.file /\ pc' = "rollback_to" /\ exitCode' = exitCode
       ELSE backup' = backup /\ Exit(2)
    /\ UNCHANGED <<fileVars, envVars, inputVars, setVars, health, pollVars, snapVars,
                   prePatch, restarts, backupWrites, configWrites, registryWrites,
                   normVars, new_cfg, jmark, peerVars>>

----------------------------------------------------------------------------
(* The other subcommands                                                   *)

handlerFrame == <<config, backups, alias_file, envVars, inputVars, backup, health,
                  pollVars, snapVars, prePatch, restarts, backupWrites, configWrites,
                  normVars, new_cfg, jmark, peerVars>>

CmdModelAdd ==
    /\ pc = "cmd_model_add"
    /\ models_file' = cmd_model_add(models_file, args.provider, args.id, args.aliases)
    /\ registryWrites' = registryWrites + 1
    /\ Exit(0)
    /\ UNCHANGED <<handlerFrame, setVars>>

CmdModelRemove ==
    /\ pc = "cmd_model_remove"
    /\ IF ~HasProvider(models_file, args.provider)
       THEN Exit(2) /\ UNCHANGED <<models_file, registryWrites>>
       ELSE LET models == models_file[ProviderAt(models_file, args.provider)].models
            IN  IF Len(remove_models(models, args.id)) = Len(models)
                THEN Exit(2) /\ UNCHANGED <<models_file, registryWrites>>
                ELSE /\ models_file' = cmd_model_remove(models_file, args.provider, args.id)
                     /\ registryWrites' = registryWrites + 1
                     /\ Exit(0)
    /\ UNCHANGED <<handlerFrame, setVars>>

CmdModelExport ==
    /\ pc = "cmd_model_export"
    /\ Exit(0)
    /\ UNCHANGED <<handlerFrame, setVars, models_file, registryWrites>>

CmdModelReload ==
    /\ pc = "cmd_model_reload"
    /\ Exit(0)
    /\ UNCHANGED <<handlerFrame, setVars, models_file, registryWrites>>

CmdModelShow ==
    /\ pc = "cmd_model_show"
    /\ Exit(0)
    /\ UNCHANGED <<handlerFrame, setVars, models_file, registryWrites>>

CmdValidate ==
    /\ pc = "cmd_validate"
    /\ \E q \in CurlQuery(normalize_model(model_raw, models_file, alias_file),
                           models_file, alias_file, validate_mode) :
          LET mid == normalize_model(model_raw, models_file, alias_file)
              v   == validate_model(mid, models_file, alias_file, validate_mode, q)
          IN  /\ model_id' = mid
              /\ curl' = q
              /\ validation' = v
              /\ IF v.ok THEN Exit(0) ELSE Exit(2)
    /\ UNCHANGED <<handlerFrame, models_file, registryWrites>>

----------------------------------------------------------------------------
(* The managed service                                                     *)

\* The service output and status are read only by the poll loop, and a
\* restart sets the status anew, so the steps of the service are taken
\* while a poll loop is running.
Polling == pc = "poll" \/ pc2 = "poll"

\* the service prints a line for the model it loaded at its last start
ServiceEmit ==
    /\ Polling
    /\ svc.status = "active"
    /\ \E text \in {ConfirmLine(svc.model), FailLine(svc.model)} :
          \/ /\ Len(journal) < MaxJournal
             /\ journal' = Append(journal, [t |-> clock, text |-> text])
             /\ UNCHANGED logfile
          \/ /\ Len(logfile) < MaxLog
             /\ logfile' = Append(logfile, text)
             /\ UNCHANGED journal
    /\ UNCHANGED <<fileVars, clock, svc, procVars, histVars, normVars, new_cfg, jmark, peerVars>>

ServiceStop ==
    /\ Polling
    /\ svc.status = "active"
    /\ svc' = [svc EXCEPT !.status = "failed"]
    /\ UNCHANGED <<fileVars, clock, journal, logfile, procVars, histVars, normVars, new_cfg, jmark, peerVars>>

----------------------------------------------------------------------------
(* Specification of the workflow                                           *)

Next ==
    \/ Main
    \/ CmdModelSet
    \/ BackupConfig
    \/ PatchConfig
    \/ RestartIssue
    \/ PollIter
    \/ PollExhausted
    \/ RollbackRestore
    \/ RollbackRestart
    \/ CmdRollback
    \/ CmdModelAdd
    \/ CmdModelRemove
    \/ CmdModelExport
    \/ CmdModelReload
    \/ CmdModelShow
    \/ CmdValidate
    \/ ServiceEmit
    \/ ServiceStop

Spec == Init /\ [][Next]_vars

----------------------------------------------------------------------------
(* Specification of the normalizer: normalize_model applied to a token and *)
(* then to its own result, over bounded registries and alias overrides     *)

MaxNormModels == 1      \* registry entries per provider

AnthDotted == <<"a","n","t","h","r","o","p","i","c","/","c","-","4",".","6">>

NormIds        == {DEFAULT_MODEL, AnthDotted, IdX}
NormAliasLists == {<<>>, <<Sonnet>>, <<IdX>>}
NormItems      == [id : NormIds, aliases : NormAliasLists]

BoundedSeq(S, n) == UNION {[1..k -> S] : k \in 0..n}

NormRegistries ==
    {<<[name |-> Anthropic, models |-> m1], [name |-> Openrouter, models |-> m2]>> :
        m1 \in BoundedSeq(NormItems, MaxNormModels),
        m2 \in BoundedSeq(NormItems, MaxNormModels)}

CorruptFile == [exists |-> TRUE, valid |-> FALSE, pairs |-> <<<<Fast, Sonnet>>>>]

\* an override whose key is a canonical id
IdFile == [exists |-> TRUE, valid |-> TRUE, pairs |-> <<<<IdX, DEFAULT_MODEL>>>>]

NormAliasFiles == {AbsentFile, FastFile, CorruptFile, IdFile}

NormTokens == {<<>>, Fast, Sonnet, TokX, IdX, AnthDotted, DEFAULT_MODEL,
               <<" ","S","o","n","n","e","t">>}

InitNorm ==
    /\ config = CfgMain
    /\ backups = EmptyDict
    /\ models_file \in NormRegistries
    /\ alias_file \in NormAliasFiles
    /\ EnvInit
    /\ ProcIdle
    /\ HistInit
    /\ PeerOff
    /\ nraw \in NormTokens
    /\ nres1 = <<>> /\ nres2 = <<>> /\ npc = "start" /\ nindex = EmptyDict

NormalizeOnce ==
    /\ npc = "start"
    /\ nindex' = build_alias_index(models_file, alias_file)
    /\ nres1' = normalize_model(nraw, models_file, alias_file)
    /\ npc' = "once"
    /\ UNCHANGED <<fileVars, envVars, procVars, histVars, nraw, nres2, new_cfg, jmark, peerVars>>

NormalizeTwice ==
    /\ npc = "once"
    /\ nres2' = normalize_model(nres1, models_file, alias_file)
    /\ npc' = "twice"
    /\ UNCHANGED <<fileVars, envVars, procVars, histVars, nraw, nres1, nindex, new_cfg, jmark,
                   peerVars>>

NextNorm == NormalizeOnce \/ NormalizeTwice

SpecNorm == InitNorm /\ [][NextNorm]_vars

----------------------------------------------------------------------------
(* Specification of the configuration writes under process failure:        *)
(* Path.write_text opens the file for writing, which truncates it, and     *)
(* then writes the text; the process can be killed between the two         *)

\* CONFIG as open(CONFIG, "w") leaves it: a file of length zero
EmptyDoc ==
    [layout    |-> "empty",
     defaults  |-> Absent,
     image     |-> Absent,
     agents    |-> <<>>,
     allowFrom |-> <<>>]

WriteCmds == {"set", "model reset", "rollback"}

MainWrite ==
    \E c \in WriteCmds, u \in Users :
    \E raw \in RawFor(c), mode \in ModeFor(c), a \in ArgsFor(c) :
        Invoke(c, u, raw, FALSE, mode, a)

\* patch_config, lines 182-192 and the open of line 194
PatchOpen ==
    /\ pc = "patch_config"
    /\ prePatch' = config
    /\ new_cfg' = patch_config(config, model_id)
    /\ config' = EmptyDoc
    /\ pc' = "patch_write"
    /\ UNCHANGED <<backups, models_file, alias_file, envVars, inputVars, setVars, backup,
                   health, exitCode, pollVars, snapVars, restarts, backupWrites,
                   configWrites, registryWrites, normVars, jmark, peerVars>>

\* patch_config, the write and close of line 194
PatchWrite ==
    /\ pc = "patch_write"
    /\ config' = new_cfg
    /\ configWrites' = configWrites + 1
    /\ pc' = "restart_and_check"
    /\ UNCHANGED <<backups, models_file, alias_file, envVars, inputVars, setVars, backup,
                   health, exitCode, pollVars, snapVars, prePatch, restarts, backupWrites,
                   registryWrites, normVars, new_cfg, jmark, peerVars>>

\* rollback_to, line 253: backup.read_text(), then the open of CONFIG
RestoreOpen ==
    /\ pc = "rollback_to"
    /\ new_cfg' = restore_config(backups, backup)
    /\ config' = EmptyDoc
    /\ pc' = "rollback_write"
    /\ UNCHANGED <<backups, models_file, alias_file, envVars, inputVars, setVars, backup,
                   health, exitCode, pollVars, snapVars, prePatch, restarts, backupWrites,
                   configWrites, registryWrites, normVars, jmark, peerVars>>

\* rollback_to, line 253: the write and close
RestoreWrite ==
    /\ pc = "rollback_write"
    /\ config' = new_cfg
    /\ configWrites' = configWrites + 1
    /\ pc' = "rollback_restart"
    /\ UNCHANGED <<backups, models_file, alias_file, envVars, inputVars, setVars, backup,
                   health, exitCode, pollVars, snapVars, prePatch, restarts, backupWrites,
                   registryWrites, normVars, new_cfg, jmark, peerVars>>

\* the process is killed (SIGKILL, exit status 128 + 9) wherever it is
Kill ==
    /\ pc \notin {"idle", "done"}
    /\ Exit(128 + 9)
    /\ UNCHANGED <<fileVars, envVars, inputVars, setVars, backup, health, pollVars,
                   histVars, normVars, new_cfg, jmark, peerVars>>

NextWrite ==
    \/ MainWrite
    \/ CmdModelSet
    \/ BackupConfig
    \/ PatchOpen
    \/ PatchWrite
    \/ RestartIssue
    \/ PollIter
    \/ PollExhausted
    \/ RestoreOpen
    \/ RestoreWrite
    \/ RollbackRestart
    \/ CmdRollback
    \/ ServiceEmit
    \/ ServiceStop
    \/ Kill

SpecWrite == Init /\ [][NextWrite]_vars

----------------------------------------------------------------------------
(* Specification of two invocations of `set`: the code takes no lock, so   *)
(* the steps of a second invocation interleave with those of the first.    *)
(* The two share the files, the service and the clock; a sleep of either   *)
(* advances the clock.                                                     *)

MaxRaceIters == 1       \* poll iterations of each invocation that are followed

RaceTokens == {IdX}
PeerTokens == {IdX, DEFAULT_MODEL}

InitRace == Init /\ config = CfgMain /\ backups = EmptyDict

MainRace == \E raw \in RaceTokens : Invoke("set", "u1", raw, FALSE, "local", NoArgs)

peerFrame == <<models_file, alias_file, journal, logfile, procVars, histVars, normVars,
               new_cfg, jmark>>

Exit2(code) == pc2' = "done" /\ exitCode2' = code

\* main and cmd_model_set up to line 324, for `set <raw> --user-id u1`
PeerMain ==
    /\ pc2 = "off"
    /\ \E raw \in PeerTokens :
          LET mid == normalize_model(raw, models_file, alias_file)
              v   == validate_model(mid, models_file, alias_file, "local", NoCurl)
          IN  /\ model_raw2' = raw
              /\ model_id2' = mid
              /\ IF ~require_allowlisted("u1", config) THEN Exit2(4)
                 ELSE IF set_branch(v, FALSE) = "exit_validation" THEN Exit2(2)
                 ELSE pc2' = set_branch(v, FALSE) /\ exitCode2' = exitCode2
    /\ UNCHANGED <<config, backups, clock, svc, peerFrame, backup2, pre_size2, deadline2,
                   health2, iters2>>

PeerBackup ==
    /\ pc2 = "backup_config"
    /\ backups' = backup_config(backups, config, clock)
    /\ backup2' = clock
    /\ pc2' = "patch_config"
    /\ UNCHANGED <<config, clock, svc, peerFrame, model_raw2, model_id2, pre_size2,
                   deadline2, health2, exitCode2, iters2>>

PeerPatch ==
    /\ pc2 = "patch_config"
    /\ config' = patch_config(config, model_id2)
    /\ pc2' = "restart_and_check"
    /\ UNCHANGED <<backups, clock, svc, peerFrame, model_raw2, model_id2, backup2,
                   pre_size2, deadline2, health2, exitCode2, iters2>>

PeerRestart ==
    /\ pc2 = "restart_and_check"
    /\ pre_size2' = Len(logfile)
    /\ \E r \in RestartOutcomes :
          /\ svc' \in Restarted(r)
          /\ clock' = IF r = "timeout" THEN clock + ShTimeout ELSE clock
          /\ IF r = "ok"
             THEN pc2' = "poll" /\ deadline2' = clock + PollDeadline
                                /\ exitCode2' = exitCode2
             ELSE Exit2(1) /\ deadline2' = deadline2
    /\ UNCHANGED <<config, backups, peerFrame, model_raw2, model_id2, backup2, health2,
                   iters2>>

PeerPoll ==
    /\ pc2 = "poll"
    /\ clock < deadline2
    /\ iters2 < MaxRaceIters
    /\ iters2' = iters2 + 1
    /\ LET now      == clock + PollSleep
           combined == read_log_from(logfile, pre_size2) \o journalctl(journal, now)
           d        == poll_decision(combined, svc.status, model_id2)
       IN  /\ clock' = now
           /\ CASE d = "poll"      -> UNCHANGED <<pc2, health2, exitCode2>>
                [] d = "confirmed" -> health2' = health_of(d) /\ Exit2(0)
                [] OTHER           -> /\ health2' = health_of(d)
                                      /\ pc2' = "rollback_to"
                                      /\ exitCode2' = exitCode2
    /\ UNCHANGED <<config, backups, svc, peerFrame, model_raw2, model_id2, backup2,
                   pre_size2, deadline2>>

PeerRestore ==
    /\ pc2 = "rollback_to"
    /\ config' = restore_config(backups, backup2)
    /\ pc2' = "rollback_restart"
    /\ UNCHANGED <<backups, clock, svc, peerFrame, model_raw2, model_id2, backup2,
                   pre_size2, deadline2, health2, exitCode2, iters2>>

PeerRollbackRestart ==
    /\ pc2 = "rollback_restart"
    /\ \E r \in RestartOutcomes :
          /\ svc' \in Restarted(r)
          /\ clock' = IF r = "timeout" THEN clock + ShTimeout ELSE clock
          /\ IF r = "ok" THEN Exit2(after_rollback("set")) ELSE Exit2(1)
    /\ UNCHANGED <<config, backups, peerFrame, model_raw2, model_id2, backup2, pre_size2,
                   deadline2, health2, iters2>>

\* the first invocation's poll iteration, followed MaxRaceIters times
RacePollIter == iters < MaxRaceIters /\ PollIter

\* the service's journal output; the log file stays as it was
RaceEmit == ServiceEmit /\ UNCHANGED logfile

NextRace ==
    \/ MainRace
    \/ CmdModelSet
    \/ BackupConfig
    \/ PatchConfig
    \/ RestartIssue
    \/ RacePollIter
    \/ RollbackRestore
    \/ RollbackRestart
    \/ PeerMain
    \/ PeerBackup
    \/ PeerPatch
    \/ PeerRestart
    \/ PeerPoll
    \/ PeerRestore
    \/ PeerRollbackRestart
    \/ RaceEmit
    \/ ServiceStop

SpecRace == InitRace /\ [][NextRace]_vars

----------------------------------------------------------------------------
(* Claims                                                                  *)

Done     == pc = "done"
IsSwitch == cmd \in SwitchCmds

\* restart_and_check returned, with failure
HealthFailed == health.reason \notin {"none", "confirmed"}

\* validate_model was called and returned failure
ValidationFailed == validation.msg # "none" /\ ~validation.ok

NoMutation ==
    /\ backupWrites = 0 /\ configWrites = 0 /\ restarts = 0
    /\ config = preConfig /\ backups = preBackups

\* the id the invocation was asked to switch to
RequestedId == normalize_model(model_raw, models_file, alias_file)

\* C1: a switch whose restart-and-verify returned failure terminates with the
\* configuration document equal to its content before the switch, with the
\* restart command issued exactly twice, and with exit code 3.
C1_RolledBack ==
    (Done /\ IsSwitch /\ HealthFailed)
        => (config = preConfig /\ restarts = 2 /\ exitCode = 3)

\* C2: once the backup is taken and the configuration patched, the invocation
\* terminates either with the health check succeeded and the configuration
\* holding the canonical id, or with the backup restored and a second restart
\* issued, whatever the restart command and the queries do.
C2_SuccessOrRollback ==
    (Done /\ IsSwitch /\ configWrites >= 1)
        => \/ health.ok /\ current_model(config) = model_id
           \/ configWrites = 2 /\ config = prePatch /\ restarts = 2

\* C3: after a switch that ends with success, current_model of the
\* configuration document is the requested canonical id, and the invocation
\* wrote exactly one backup artifact, which holds the document as it was
\* immediately before the patch.
C3_Success ==
    (Done /\ IsSwitch /\ health.ok)
        => /\ current_model(config) = RequestedId
           /\ backupWrites = 1
           /\ backup \in DOMAIN backups
           /\ backups[backup] = prePatch
           /\ \A k \in DOMAIN preBackups : k # backup => backups[k] = preBackups[k]

W3_Success == Done /\ IsSwitch /\ health.ok /\ exitCode = 0 /\ config # preConfig

\* C4: when validation of the normalized id fails, the switch ends with exit
\* code 2 and has made no backup, no configuration write and no restart, with
\* and without dry-run.
C4_ValidationAbort ==
    (IsSwitch /\ ValidationFailed) => (Done /\ exitCode = 2 /\ NoMutation)

W4_ValidationAbort ==
    Done /\ IsSwitch /\ dry_run /\ validation.msg = "remote_failed" /\ exitCode = 2

\* C5: a dry-run switch never makes a backup, never writes the configuration
\* document and never restarts the service; it ends with the validation abort
\* or returns normally.
C5_DryRun ==
    (IsSwitch /\ dry_run /\ pc # "idle")
        => /\ NoMutation
           /\ pc \in {"cmd_model_set", "done"}
           /\ (Done /\ exitCode # 4)
                 => \/ ValidationFailed /\ exitCode = 2
                    \/ validation.ok /\ exitCode = 0

W5_DryRun ==
    Done /\ IsSwitch /\ dry_run /\ validation.ok /\ exitCode = 0
         /\ model_id # current_model(config)

\* the caller identity is present and a member of the allow-list
OnAllowList ==
    /\ user_id # ""
    /\ \E i \in 1..Len(preConfig.allowFrom) : preConfig.allowFrom[i].s = user_id

\* C6: a mutating subcommand whose caller identity is missing or not on the
\* allow-list ends with exit code 4 before anything else runs: no normalization
\* or validation, no registry write, no backup, no configuration write, no
\* restart.
C6_AuthGate ==
    (pc # "idle" /\ cmd \in Restricted /\ ~OnAllowList)
        => /\ Done /\ exitCode = 4
           /\ NoMutation
           /\ registryWrites = 0 /\ models_file = DefaultRegistry
           /\ model_id = <<>> /\ validation = NoValidation

W6_AuthGate == Done /\ cmd = "model add" /\ user_id = "u2" /\ exitCode = 4

\* C7: normalization is idempotent: normalizing the result of normalize_model
\* again returns the same id, for every token, registry and alias overrides.
C7_Idempotent == npc = "twice" => nres2 = nres1

\* C8: a switch whose raw token is empty or only whitespace never makes a
\* backup, never writes the configuration document and never restarts the
\* service, under every validation mode.
C8_EmptyToken ==
    (pc # "idle" /\ cmd \in {"model set", "set"} /\ Strip(model_raw) = <<>>)
        => (backupWrites = 0 /\ configWrites = 0 /\ restarts = 0)

\* C9: when the poll loop runs out of time, restart-and-verify has issued one
\* more status query after the last iteration, and it reports "still active"
\* only if the service is active at that point.
C9_FinalStatusQuery ==
    (pc = "rollback_to" /\ health.reason = "active_unconfirmed")
        => (statusQueries = iters + 1 /\ svc.status = "active")

\* C10: in every poll iteration the checks are decided in the order failure
\* pattern, confirmation marker, service status, and the first that fires ends
\* the loop in that iteration; the loop polls again only when none fires.
C10_CheckPriority ==
    lastObs.valid =>
        IF lastObs.fail
        THEN pc # "poll" /\ health = [ok |-> FALSE, reason |-> "unknown_model_in_logs"]
        ELSE IF lastObs.confirm
        THEN pc # "poll" /\ health = [ok |-> TRUE, reason |-> "confirmed"]
        ELSE IF lastObs.status # "active"
        THEN pc # "poll" /\ health = [ok |-> FALSE, reason |-> "not_active"]
        ELSE health.reason \in {"none", "active_unconfirmed"}

W10_CheckPriority ==
    /\ lastObs.valid /\ lastObs.fail /\ lastObs.confirm /\ lastObs.status # "active"
    /\ health.reason = "unknown_model_in_logs"

\* the documents the invocation means to leave in CONFIG: the one it found,
\* the patched one, the backup it restores
IntendedDocs ==
    {preConfig, patch_config(preConfig, model_id)}
        \cup (IF backup \in DOMAIN backups THEN {backups[backup]} ELSE {})

\* C11: when the process has ended, by itself or killed at any point of a
\* write of the configuration document (patch or restore), the document on
\* disk is the complete old or the complete new content, never an empty or
\* partial one.
C11_AtomicWrite == Done => config \in IntendedDocs

\* the canonical ids of the registry, as build_alias_index reads them
RegistryIds(registry) ==
    UNION {{Strip(registry[p].models[i].id) : i \in 1..Len(registry[p].models)} :
              p \in 1..Len(registry)} \ {<<>>}

\* C12: for a canonical id of the registry that starts with a known provider
\* prefix, normalize_model returns an id with the same provider prefix,
\* whatever the registry and the alias overrides contain.
C12_PrefixKept ==
    (npc # "start" /\ nraw \in RegistryIds(models_file))
        => \A p \in KnownPrefixes : StartsWith(nraw, p) => StartsWith(nres1, p)

\* the keys that explicit aliases define: the alias lists of the registry
\* entries and the keys of the override file
ExplicitKeys(registry, af) ==
    (UNION {UNION {{Lower(Strip(registry[p].models[i].aliases[k])) :
                       k \in 1..Len(registry[p].models[i].aliases)} :
                   i \in 1..Len(registry[p].models)} :
            p \in 1..Len(registry)})
        \cup DOMAIN load_aliases(af)

\* C17: the alias index maps the lowercase form of every canonical id of the
\* registry to that id, and its base name to it unless an explicit alias
\* defines that key; no other entry and no override makes a canonical id
\* resolve to a different id.
C17_IndexSelf ==
    npc # "start" =>
        \A id \in RegistryIds(models_file) :
            /\ Get(nindex, Lower(id), <<>>) = id
            /\ Lower(SplitLast(id)) \notin ExplicitKeys(models_file, alias_file)
                  => Get(nindex, Lower(SplitLast(id)), <<>>) = id

\* validate_model ran under mode=remote
RemoteValidated ==
    /\ cmd \in SwitchCmds \cup {"validate"}
    /\ validate_mode = "remote"
    /\ validation.msg # "none"

\* C13: under mode=remote validation succeeds only if the id is locally
\* present and, for an openrouter id, the catalog query succeeded and lists
\* the id; a query that exits non-zero, times out or returns an unparsable
\* body gives the result (false, reason), the invocation ends with the
\* validation exit code and not with an exception, and no backup, patch or
\* restart follows.  The result of validation is compared with the registry
\* in the states before the first write; no later step of the invocation
\* changes the result, the id or the registry.
C13_RemoteFailsClosed ==
    RemoteValidated =>
        /\ (validation.ok /\ backupWrites = 0) =>
              /\ local_model_exists(model_id, models_file, alias_file)
              /\ provider_from_model(model_id) = Openrouter
                    => /\ curl.run = "ok" /\ curl.parses
                       /\ CatalogTarget(model_id) \in curl.ids
        /\ (provider_from_model(model_id) = Openrouter /\ CatalogRaises(curl))
              => /\ ~validation.ok
                 /\ Done /\ exitCode = 2
                 /\ NoMutation

W13_RemoteFailsClosed ==
    /\ Done /\ IsSwitch /\ ~dry_run /\ RemoteValidated
    /\ curl.run = "timeout"
    /\ validation = [ok |-> FALSE, msg |-> "remote_failed"]
    /\ exitCode = 2

\* the positions of the registry entries: provider index and model index
RegistryEntries(registry) ==
    UNION {{<<p, i>> : i \in 1..Len(registry[p].models)} : p \in 1..Len(registry)}

\* C14: after registry add and remove operations on a registry whose ids are
\* globally unique, every canonical id occurs at most once in the whole
\* registry, across all providers.
C14_UniqueIds ==
    \A e1, e2 \in RegistryEntries(models_file) :
        models_file[e1[1]].models[e1[2]].id = models_file[e2[1]].models[e2[2]].id
            => e1 = e2

\* C19: under mode=local the id that a switch writes into the configuration
\* document is a canonical id of a registry entry, never an alias string or
\* another key of the alias index.
C19_WritesCanonicalId ==
    (IsSwitch /\ validate_mode = "local" /\ configWrites >= 1)
        => model_id \in RegistryIds(models_file)

\* C20: patch_config changes only the default model field and the model field
\* of the agents whose id is "main"; the image model, the agent list with the
\* models of the other agents, and the allow-list keep their values, and
\* after the patch the default field and every "main" agent field equal the
\* id.
C20_PatchFrame ==
    pc = "restart_and_check" =>
        /\ config.defaults = Some(model_id)
        /\ config.image = prePatch.image
        /\ config.allowFrom = prePatch.allowFrom
        /\ Len(config.agents) = Len(prePatch.agents)
        /\ \A i \in 1..Len(prePatch.agents) :
              /\ config.agents[i].id = prePatch.agents[i].id
              /\ config.agents[i].primary =
                    IF prePatch.agents[i].id = "main" THEN Some(model_id)
                    ELSE prePatch.agents[i].primary

W20_PatchFrame ==
    /\ pc = "restart_and_check"
    /\ prePatch.defaults # Some(model_id)
    /\ \E i, j, k \in 1..Len(prePatch.agents) :
          /\ prePatch.agents[i].id = "main" /\ prePatch.agents[i].primary.set
          /\ prePatch.agents[j].id = "main" /\ ~prePatch.agents[j].primary.set
          /\ prePatch.agents[k].id # "main" /\ prePatch.agents[k].primary.set
          /\ prePatch.agents[k].primary # Some(model_id)

----------------------------------------------------------------------------
\* C15: a backup, once written, is never changed or removed by a later step,
\* and every backup step of a switch adds a backup that did not exist before,
\* also when two switches take their backups within the same clock second.
BackupStep ==
    \/ pc = "backup_config" /\ pc' = "patch_config"
    \/ pc2 = "backup_config" /\ pc2' = "patch_config"

C15_BackupsImmutable ==
    [][/\ \A k \in DOMAIN backups : k \in DOMAIN backups' /\ backups'[k] = backups[k]
       /\ BackupStep => DOMAIN backups' # DOMAIN backups]_vars

----------------------------------------------------------------------------
\* C18: restart_and_check reports success for model_id only if the service
\* printed the confirmation line of exactly model_id after this invocation's
\* restart command, and it reports a failure seen in the logs only if the
\* failure line was printed after that restart; lines printed before the
\* restart never decide the outcome.
FreshLines ==
    {journal[i].text : i \in (jmark + 1)..Len(journal)}
        \cup {logfile[i] : i \in (pre_size + 1)..Len(logfile)}

C18_FreshConfirmation ==
    /\ health.ok => ConfirmLine(model_id) \in FreshLines
    /\ health.reason = "unknown_model_in_logs" =>
          \E l \in FreshLines : LineMatchesFailure(l)

----------------------------------------------------------------------------
\* C16: with two invocations of `set` interleaved the state is reachable in
\* which the first has reported a successful switch to model_id while the
\* configuration document's model is another one, and whenever that state
\* occurs the document is what the other invocation wrote: the result of
\* its patch, or the backup it took earlier and restored in its rollback.
ReportedSuccess == Done /\ exitCode = 0 /\ health.ok

PeerPatched  == pc2 \in {"restart_and_check", "poll", "rollback_to", "rollback_restart", "done"}
PeerRestored == pc2 \in {"rollback_restart", "done"} /\ health2.reason \notin {"none", "confirmed"}

====
